---- MODULE Spec2Model ----
(***************************************************************************)
(* A model of google/dev/create_gce_image.py: the create_image workflow    *)
(* (validate, check_for_image, create_prototype_instance,                  *)
(* monitor_serial_port_until_metadata_key, then make_image_tarball or      *)
(* make_image_resource) run against a provisioning API whose every call    *)
(* returns a status code chosen by the environment.                        *)
(*                                                                         *)
(* Text is a sequence of one-character strings, so that startswith, find,  *)
(* basename, replace, strip and the regular-expression search of the       *)
(* source are computed, not assumed.                                       *)
(***************************************************************************)
EXTENDS Integers, Sequences, FiniteSets, TLC

VARIABLES
    pc,          \* position of the run inside create_image
    options,     \* the argparse Namespace (get_target_image and get_source_image write to it)
    result,      \* "running", "ok" or "failed"
    error,       \* what ended a failed run
    raised,      \* exception pending while the finally block of make_image_tarball runs
    calls,       \* the provisioning API calls issued so far, in order
    images,      \* image resources that exist in the target project
    instances,   \* instances that exist
    disks,       \* disks that exist
    attached,    \* disks attached to the prototype instance besides its boot disk
    tarballs,    \* storage objects written by the remote bundling command
    tempfiles,   \* temporary local payload files that exist
    offset,      \* monitor_serial_port_until_metadata_key: offset
    emitted,     \* text written to standard output by the watcher
    cycles,      \* iterations of the watcher's loop begun so far
    clock,       \* time slept so far
    sentinelPolled, \* history: some describe response held the sentinel
    lastFetch,   \* history: what the environment answered to the log fetch just made,
                 \*          and whether output had been seen before it
    watchFailed, \* history: a log fetch failed without the crash signature after output was seen
    listing,     \* history: what `gcloud compute images list` printed to get_source_image
    invocations  \* the command lines of two invocations of the script and the names they derive

vars == <<pc, options, result, error, raised, calls, images, instances, disks,
          attached, tarballs, tempfiles, offset, emitted, cycles, clock,
          sentinelPolled, lastFetch, watchFailed, listing, invocations>>

----------------------------------------------------------------------------
(* Bounds *)

MaxPolls == 3
MaxLog == 2

----------------------------------------------------------------------------
(* Text helpers: Python's str methods as the source uses them *)

Min(S) == CHOOSE x \in S : \A y \in S : x <= y

\* s.startswith(p)
StartsWith(s, p) == Len(s) >= Len(p) /\ SubSeq(s, 1, Len(p)) = p

\* s.find(sub): the lowest 0-based index where sub occurs, or -1
Find(s, sub) ==
    LET hits == {i \in 0..(Len(s) - Len(sub)) : SubSeq(s, i + 1, i + Len(sub)) = sub}
    IN  IF hits = {} THEN -1 ELSE Min(hits)

\* s[n:]
Slice(s, n) == SubSeq(s, n + 1, Len(s))

\* os.path.basename(p): what follows the last "/"
Basename(p) ==
    LET slashes == {i \in 1..Len(p) : p[i] = "/"}
    IN  IF slashes = {} THEN p
        ELSE SubSeq(p, (CHOOSE i \in slashes : \A j \in slashes : j <= i) + 1, Len(p))

\* s.replace(a, b) for single characters a, b
Replace(s, a, b) == [i \in 1..Len(s) |-> IF s[i] = a THEN b ELSE s[i]]

Whitespace == {" ", "\n"}

\* s.strip()
Strip(s) ==
    LET keep == {i \in 1..Len(s) : s[i] \notin Whitespace}
    IN  IF keep = {} THEN <<>>
        ELSE SubSeq(s, Min(keep), CHOOSE i \in keep : \A j \in keep : j <= i)

\* Mutant of FamilySearch: the pattern without the family, '.*? '
FamilySearch_any_image(family, text) ==
    LET ends(i) == {j \in i..Len(text) :
                       /\ text[j] = " "
                       /\ \A k \in i..(j - 1) : text[k] # "\n"}
        starts == {i \in 1..Len(text) : ends(i) # {}}
    IN  IF starts = {} THEN <<>>
        ELSE LET i == Min(starts) IN SubSeq(text, i, Min(ends(i)))

\* re.search(family + '.*? ', text).group(0), or <<>> when there is no match:
\* the leftmost occurrence of family that is followed on the same line by a
\* space, taken up to and including the first such space.
FamilySearch(family, text) ==
    LET n == Len(family)
        ends(i) == {j \in (i + n)..Len(text) :
                       /\ text[j] = " "
                       /\ \A k \in (i + n)..(j - 1) : text[k] # "\n"}
        starts == {i \in 1..(Len(text) - n + 1) :
                       /\ SubSeq(text, i, i + n - 1) = family
                       /\ ends(i) # {}}
    IN  IF starts = {} THEN <<>>
        ELSE LET i == Min(starts) IN SubSeq(text, i, Min(ends(i)))

----------------------------------------------------------------------------
(* Literals of the source *)

\* 'gs://' (create_image)
GS_SCHEME == <<"g", "s", ":", "/", "/">>

\* 'If you would like to report this issue'
CRASH_SIGNATURE ==
    <<"I","f"," ","y","o","u"," ","w","o","u","l","d"," ","l","i","k","e"," ",
      "t","o"," ","r","e","p","o","r","t"," ","t","h","i","s"," ",
      "i","s","s","u","e">>

\* 'spinnaker-sentinal', the metadata_key create_image passes to the watcher
METADATA_KEY ==
    <<"s","p","i","n","n","a","k","e","r","-","s","e","n","t","i","n","a","l">>

\* pattern = ' - key: {key}'.format(key=metadata_key)
Pattern(key) == <<" ", "-", " ", "k", "e", "y", ":", " ">> \o key

\* '{name}-export'.format(name=options.image)
ExportDiskName(image) == image \o <<"-","e","x","p","o","r","t">>

\* time.sleep(8)
SLEEP_INTERVAL == 8

----------------------------------------------------------------------------
(* The requests the model runs: the fields of options that create_image reads *)

ReleasePaths == { <<>>, <<"g","s",":","/","/","r","_","1">> }

ImageNames == { <<>>, <<"i","m","g">> }

Projects == { <<>>, <<"p">> }

TarballPaths == { <<>>,
                  <<"g","s",":","/","/","b","/","t">>,
                  <<"g","s",":","/","t">>,
                  <<"/","g","s",":","/","/","t">> }

SourceImages == { <<>>, <<"s","r","c">> }

SourceFamily == <<"u","1">>

InstanceName == <<"v","m">>

\* What `gcloud compute images list` may print
ImageListings ==
    { <<>>,
      <<"d","8"," ","p","\n">>,
      <<"u","1","a","\n","d","8"," ","p","\n">>,
      <<"d","8"," ","p","\n","u","1","a"," ","p","\n","u","1","b"," ","p","\n">> }

\* The serial port output of the instance: an append-only text
FullLog == [i \in 1..MaxLog |-> IF i % 2 = 1 THEN "a" ELSE "b"]

SerialOutputs == { SubSeq(FullLog, 1, n) : n \in 0..MaxLog }

\* Standard error of a failing log fetch, by where the crash signature sits
StderrKinds == {"absent", "start", "inside"}

StderrOf(kind) ==
    CASE kind = "absent" -> <<"E","R","R","O","R">>
      [] kind = "start"  -> CRASH_SIGNATURE \o <<".">>
      [] kind = "inside" -> <<"E","R","R","O","R","\n">> \o CRASH_SIGNATURE \o <<".">>

\* What `gcloud compute instances describe` may print, by whether the
\* sentinel metadata key is in it
DescribeText(hasSentinel, n) ==
    LET key == Pattern(METADATA_KEY)
    IN  IF hasSentinel
        THEN (IF n = 0 THEN key ELSE <<"i","d",":","\n">> \o key \o <<"\n">>)
        ELSE CASE n = 0 -> <<>>
               [] n = 1 -> <<"i","d",":","\n">>
               [] OTHER -> SubSeq(key, 1, Len(key) - 1)

NoFetch == [failed |-> FALSE, sig |-> "none", output |-> FALSE, seen |-> FALSE]

\* One provisioning API call: what was called, on what, and the status it returned
Call(op, project, name, code) ==
    [op |-> op, project |-> project, name |-> name, code |-> code]

----------------------------------------------------------------------------
(* Pure functions of the source *)

\* get_target_image: options.image, or the basename of the release path
\* with "_" replaced by "-"
get_target_image(o) ==
    IF o.image = <<>>
    THEN Replace(Basename(o.release_path), "_", "-")
    ELSE o.image

\* get_target_project calls get_default_project(options), which takes no
\* argument, when options.image_project is empty: a TypeError
get_target_project_raises(o) == o.image_project = <<>>

get_target_project(o) == o.image_project

\* install_utils.run_or_die: the run ends when the command's status is not 0
run_or_die_dies(code) == code # 0

\* create_image: `if not options.release_path`
release_path_missing(o) == o.release_path = <<>>

\* Mutant of tarball_path_invalid: gs:// looked for anywhere in the path
tarball_path_invalid_contains(o) ==
    /\ o.write_tarball_path # <<>>
    /\ Find(o.write_tarball_path, GS_SCHEME) < 0

\* create_image: write_tarball_path is set and does not start with gs://
tarball_path_invalid(o) ==
    /\ o.write_tarball_path # <<>>
    /\ ~StartsWith(o.write_tarball_path, GS_SCHEME)

\* Mutant of image_exists: the status of the existence check not looked at
image_exists_never(retcode) == FALSE

\* Mutant of image_exists: the test of the status inverted
image_exists_inverted(retcode) == retcode # 0

\* check_for_image: `if retcode == 0`
image_exists(retcode) == retcode = 0

Codes == {0, 1}

----------------------------------------------------------------------------
(* State *)

Requests ==
    [release_path : ReleasePaths,
     write_tarball_path : TarballPaths,
     image : ImageNames,
     image_project : Projects,
     source_image : SourceImages,
     source_image_family : {SourceFamily},
     tmp_instance_name : {InstanceName},
     trace : BOOLEAN]

Init ==
    /\ options \in Requests
    /\ pc = "validate"
    /\ result = "running"
    /\ error = "none"
    /\ raised = "none"
    /\ calls = <<>>
    /\ images \in { {}, {get_target_image(options)} }
    /\ instances = {}
    /\ disks = {}
    /\ attached = {}
    /\ tarballs = {}
    /\ tempfiles = {}
    /\ offset = 0
    /\ emitted = <<>>
    /\ cycles = 0
    /\ clock = 0
    /\ sentinelPolled = FALSE
    /\ lastFetch = NoFetch
    /\ watchFailed = FALSE
    /\ listing = <<>>
    /\ invocations = <<>>

\* The run ends with an exception or sys.exit
Fail(why) ==
    /\ pc' = "end"
    /\ result' = "failed"
    /\ error' = why

Continue(next) ==
    /\ pc' = next
    /\ UNCHANGED <<result, error>>

cloud == <<images, instances, disks, attached, tarballs>>
watch == <<offset, emitted, cycles, clock, sentinelPolled, watchFailed>>

----------------------------------------------------------------------------
(* create_image, lines 444-452: validation of the request *)

create_image_validate ==
    /\ pc = "validate"
    /\ IF release_path_missing(options)
         THEN Fail("ValueError: release_path")
         ELSE IF tarball_path_invalid(options)
                THEN Fail("ValueError: write_tarball_path")
                ELSE Continue("check")
    /\ lastFetch' = NoFetch
    /\ UNCHANGED <<options, raised, calls, cloud, tempfiles, watch, listing, invocations>>

(* check_for_image *)
check_for_image ==
    /\ pc = "check"
    /\ options' = [options EXCEPT !.image = get_target_image(options)]
    /\ IF get_target_project_raises(options)
         THEN /\ Fail("TypeError")
              /\ UNCHANGED calls
         ELSE \E retcode \in (IF get_target_image(options) \in images
                                THEN Codes ELSE {1}) :
                /\ calls' = Append(calls, Call("describeImage",
                                               get_target_project(options),
                                               get_target_image(options), retcode))
                /\ IF image_exists(retcode)
                     THEN Fail("exit: image exists")
                     ELSE Continue("tempfiles")
    /\ lastFetch' = NoFetch
    /\ UNCHANGED <<raised, cloud, tempfiles, watch, listing, invocations>>

(* create_prototype_instance, lines 197-212: the two payload files made
   with tempfile.mkstemp *)
make_payload_files ==
    /\ pc = "tempfiles"
    /\ tempfiles' = {"temp_install_spinnaker", "temp_install_dependencies"}
    /\ Continue("resolve")
    /\ lastFetch' = NoFetch
    /\ UNCHANGED <<options, raised, calls, cloud, watch, listing, invocations>>

(* get_source_image, evaluated at line 229 while the create command is
   built, outside the try block *)
get_source_image ==
    /\ pc = "resolve"
    /\ IF options.source_image # <<>>
         THEN /\ Continue("create_instance")
              /\ UNCHANGED <<options, calls, listing>>
         ELSE \E code \in Codes, stdout \in ImageListings :
                /\ calls' = Append(calls, Call("listImages", <<>>, <<>>, code))
                /\ listing' = stdout
                /\ IF run_or_die_dies(code)
                     THEN /\ Fail("exit: listImages")
                          /\ UNCHANGED options
                     ELSE LET match == FamilySearch(options.source_image_family, stdout)
                          IN  IF match = <<>>
                                THEN /\ Fail("exit: no image for family")
                                     /\ UNCHANGED options
                                ELSE /\ Continue("create_instance")
                                     /\ options' = [options EXCEPT
                                                      !.source_image = Strip(match)]
    /\ lastFetch' = NoFetch
    /\ UNCHANGED <<raised, cloud, tempfiles, watch, invocations>>

(* create_prototype_instance, lines 226-240: the create call inside
   try/finally. A created instance comes with a boot disk of its name. *)
create_prototype_instance ==
    /\ pc = "create_instance"
    /\ \E code \in Codes :
         /\ calls' = Append(calls, Call("createInstance", get_target_project(options),
                                        options.tmp_instance_name, code))
         /\ IF run_or_die_dies(code)
              THEN /\ Fail("exit: createInstance")
                   /\ UNCHANGED <<instances, disks>>
              ELSE /\ Continue("poll")
                   /\ instances' = instances \cup {options.tmp_instance_name}
                   /\ disks' = disks \cup {options.tmp_instance_name}
    /\ tempfiles' = {}
    /\ lastFetch' = NoFetch
    /\ UNCHANGED <<options, raised, images, attached, tarballs, watch, listing, invocations>>

----------------------------------------------------------------------------
(* monitor_serial_port_until_metadata_key *)

\* line 318: stderr.find('If you would like to report this issue') > 0
is_gcloud_crash(stderr) == Find(stderr, CRASH_SIGNATURE) > 0

\* line 331: stdout.find(pattern) >= 0
sentinel_found(stdout, pattern) == Find(stdout, pattern) >= 0

\* lines 463-466: the branch of the extractor create_image takes
extractor_entry(o) ==
    IF o.write_tarball_path # <<>> THEN "create_disk" ELSE "delete_instance"

\* Mutant of after_fetch: any failing log fetch repeated at once
after_fetch_retry_any(code, newOffset, stderr) ==
    IF code # 0 THEN "poll" ELSE "describe"

\* Mutant of after_fetch: the test of line 317 without `and offset`
after_fetch_ignores_offset(code, newOffset, stderr) ==
    IF code # 0
      THEN IF is_gcloud_crash(stderr) THEN "poll" ELSE "drain"
      ELSE "describe"

\* lines 317-321: where a trace-mode cycle goes after its log fetch: `continue`
\* on a failure taken for a gcloud crash, `break` on another failure once
\* output was seen, the describe poll otherwise
after_fetch(code, newOffset, stderr) ==
    IF code # 0 /\ newOffset # 0
      THEN IF is_gcloud_crash(stderr) THEN "poll" ELSE "drain"
      ELSE "describe"

(* lines 306-321: the log fetch of a trace-mode cycle *)
monitor_fetch ==
    /\ pc = "poll"
    /\ options.trace
    /\ cycles < MaxPolls
    /\ \E code \in Codes, stdout \in SerialOutputs, kind \in StderrKinds :
         LET stderr == IF code = 0 THEN <<>> ELSE StderrOf(kind)
             grown == Len(stdout) > offset
             newOffset == IF grown THEN Len(stdout) ELSE offset
         IN  /\ code = 0 => kind = "absent"
             /\ calls' = Append(calls, Call("getSerialOutput", get_target_project(options),
                                            options.tmp_instance_name, code))
             /\ emitted' = IF grown THEN emitted \o Slice(stdout, offset) ELSE emitted
             /\ offset' = newOffset
             /\ lastFetch' = [failed |-> code # 0,
                              sig |-> IF code # 0 THEN kind ELSE "none",
                              output |-> newOffset > 0,
                              seen |-> offset > 0]
             /\ watchFailed' = (watchFailed \/
                                  (code # 0 /\ kind = "absent" /\ newOffset > 0))
             /\ Continue(after_fetch(code, newOffset, stderr))
    /\ cycles' = cycles + 1
    /\ UNCHANGED <<options, raised, cloud, tempfiles, clock, sentinelPolled, listing,
                   invocations>>

(* lines 322-324: the progress dot of a cycle without trace *)
monitor_dot ==
    /\ pc = "poll"
    /\ ~options.trace
    /\ cycles < MaxPolls
    /\ emitted' = Append(emitted, ".")
    /\ cycles' = cycles + 1
    /\ Continue("describe")
    /\ lastFetch' = NoFetch
    /\ UNCHANGED <<options, raised, calls, cloud, tempfiles, offset, clock,
                   sentinelPolled, watchFailed, listing, invocations>>

(* lines 326-332: the describe poll and the test for the sentinel *)
monitor_describe ==
    /\ pc = "describe"
    /\ \E code \in Codes, hasSentinel \in BOOLEAN, n \in 0..2 :
         LET stdout == DescribeText(hasSentinel, n)
         IN  /\ calls' = Append(calls, Call("describeInstance", get_target_project(options),
                                            options.tmp_instance_name, code))
             /\ sentinelPolled' = (sentinelPolled \/ hasSentinel)
             /\ IF sentinel_found(stdout, Pattern(METADATA_KEY))
                  THEN Continue("drain")
                  ELSE Continue("sleep")
    /\ lastFetch' = NoFetch
    /\ UNCHANGED <<options, raised, cloud, tempfiles, offset, emitted, cycles, clock,
                   watchFailed, listing, invocations>>

(* line 334: time.sleep(8) *)
monitor_sleep ==
    /\ pc = "sleep"
    /\ clock' = clock + SLEEP_INTERVAL
    /\ Continue("poll")
    /\ lastFetch' = NoFetch
    /\ UNCHANGED <<options, raised, calls, cloud, tempfiles, offset, emitted, cycles,
                   sentinelPolled, watchFailed, listing, invocations>>

\* line 339: the project of the final fetch is the literal word, not the argument
DRAIN_PROJECT == <<"p","r","o","j","e","c","t">>

(* lines 336-344: after the loop, the remainder of the log in trace mode *)
monitor_drain ==
    /\ pc = "drain"
    /\ IF options.trace
         THEN \E code \in Codes, stdout \in SerialOutputs :
                /\ calls' = Append(calls, Call("getSerialOutput", DRAIN_PROJECT,
                                               options.tmp_instance_name, code))
                /\ IF run_or_die_dies(code)
                     THEN /\ Fail("exit: getSerialOutput")
                          /\ UNCHANGED emitted
                     ELSE /\ Continue(extractor_entry(options))
                          /\ emitted' = emitted \o Slice(stdout, offset)
         ELSE /\ Continue(extractor_entry(options))
              /\ UNCHANGED <<calls, emitted>>
    /\ lastFetch' = NoFetch
    /\ UNCHANGED <<options, raised, cloud, tempfiles, offset, cycles, clock,
                   sentinelPolled, watchFailed, listing, invocations>>

----------------------------------------------------------------------------
(* The extractor: make_image_tarball or make_image_resource *)

\* Mutant of extractor_next: the scratch disk deleted before it is detached
extractor_next_delete_first(at) ==
    CASE at = "delete_instance"  -> "create_image"
      [] at = "create_image"     -> "delete_boot_disk"
      [] at = "delete_boot_disk" -> "end"
      [] at = "create_disk"      -> "attach_disk"
      [] at = "attach_disk"      -> "bundle"
      [] at = "bundle"           -> "delete_disk"
      [] at = "delete_disk"      -> "detach_disk"
      [] at = "detach_disk"      -> "end"

\* Mutant of extractor_next: the boot disk deleted before the image is created
extractor_next_disk_first(at) ==
    CASE at = "delete_instance"  -> "delete_boot_disk"
      [] at = "delete_boot_disk" -> "create_image"
      [] at = "create_image"     -> "end"
      [] at = "create_disk"      -> "attach_disk"
      [] at = "attach_disk"      -> "bundle"
      [] at = "bundle"           -> "detach_disk"
      [] at = "detach_disk"      -> "delete_disk"
      [] at = "delete_disk"      -> "end"

\* Mutant of extractor_next: make_image_resource without its disk deletion
extractor_next_keep_disk(at) ==
    CASE at = "delete_instance"  -> "create_image"
      [] at = "create_image"     -> "end"
      [] at = "delete_boot_disk" -> "end"
      [] at = "create_disk"      -> "attach_disk"
      [] at = "attach_disk"      -> "bundle"
      [] at = "bundle"           -> "detach_disk"
      [] at = "detach_disk"      -> "delete_disk"
      [] at = "delete_disk"      -> "end"

\* The order of the extractor's calls. Image branch: extract_image_from_instance
\* deletes the instance, creates the image, then make_image_resource deletes
\* the boot disk. Tarball branch: make_image_tarball creates and attaches the
\* scratch disk, bundles, then detaches and deletes the disk.
extractor_next(at) ==
    CASE at = "delete_instance"  -> "create_image"
      [] at = "create_image"     -> "delete_boot_disk"
      [] at = "delete_boot_disk" -> "end"
      [] at = "create_disk"      -> "attach_disk"
      [] at = "attach_disk"      -> "bundle"
      [] at = "bundle"           -> "detach_disk"
      [] at = "detach_disk"      -> "delete_disk"
      [] at = "delete_disk"      -> "end"

\* The run goes on to the next call of the extractor, or returns from create_image
Proceed(next) ==
    IF next = "end"
      THEN /\ pc' = "end"
           /\ result' = "ok"
           /\ UNCHANGED error
      ELSE Continue(next)

\* A step of the finally block of make_image_tarball: when the block is over,
\* the pending failure of the bundling command, if any, ends the run
Finally(next) ==
    IF next = "end" /\ raised # "none"
      THEN Fail(raised)
      ELSE Proceed(next)

\* Mutant of cleanup_raises: the cleanup calls made with run_or_die
cleanup_raises_on_failure(code) == code # 0

\* lines 422 and 427: the cleanup calls are made with `run` and their status
\* is dropped, so they raise nothing whatever the status
cleanup_raises(code) == FALSE

\* A disk can be deleted when it exists and is attached to nothing
Deletable(d) == d \in disks /\ d \notin attached

(* extract_image_from_instance, lines 249-254: delete the instance, keep its boot disk *)
extract_delete_instance ==
    /\ pc = "delete_instance"
    /\ \E code \in Codes :
         /\ calls' = Append(calls, Call("deleteInstance", get_target_project(options),
                                        options.tmp_instance_name, code))
         /\ IF run_or_die_dies(code)
              THEN /\ Fail("exit: deleteInstance")
                   /\ UNCHANGED instances
              ELSE /\ Proceed(extractor_next("delete_instance"))
                   /\ instances' = instances \ {options.tmp_instance_name}
    /\ lastFetch' = NoFetch
    /\ UNCHANGED <<options, raised, images, disks, attached, tarballs, tempfiles, watch,
                   listing, invocations>>

(* extract_image_from_instance, lines 256-262: create the image from the boot disk *)
extract_create_image ==
    /\ pc = "create_image"
    /\ \E code \in (IF get_target_image(options) \in images THEN {1} ELSE Codes) :
         /\ calls' = Append(calls, Call("createImage", get_target_project(options),
                                        get_target_image(options), code))
         /\ IF run_or_die_dies(code)
              THEN /\ Fail("exit: createImage")
                   /\ UNCHANGED images
              ELSE /\ Proceed(extractor_next("create_image"))
                   /\ images' = images \cup {get_target_image(options)}
    /\ lastFetch' = NoFetch
    /\ UNCHANGED <<options, raised, instances, disks, attached, tarballs, tempfiles,
                   watch, listing, invocations>>

(* make_image_resource, lines 351-356: delete the extracted boot disk *)
make_image_resource ==
    /\ pc = "delete_boot_disk"
    /\ \E code \in (IF Deletable(options.tmp_instance_name) THEN Codes ELSE {1}) :
         /\ calls' = Append(calls, Call("deleteDisk", get_target_project(options),
                                        options.tmp_instance_name, code))
         /\ IF run_or_die_dies(code)
              THEN /\ Fail("exit: deleteDisk")
                   /\ UNCHANGED disks
              ELSE /\ Proceed(extractor_next("delete_boot_disk"))
                   /\ disks' = disks \ {options.tmp_instance_name}
    /\ lastFetch' = NoFetch
    /\ UNCHANGED <<options, raised, images, instances, attached, tarballs, tempfiles,
                   watch, listing, invocations>>

(* make_image_tarball, lines 397-410: create the scratch disk *)
tarball_create_disk ==
    /\ pc = "create_disk"
    /\ \E code \in Codes :
         /\ calls' = Append(calls, Call("createDisk", get_target_project(options),
                                        ExportDiskName(options.image), code))
         /\ IF run_or_die_dies(code)
              THEN /\ Fail("exit: createDisk")
                   /\ UNCHANGED disks
              ELSE /\ Proceed(extractor_next("create_disk"))
                   /\ disks' = disks \cup {ExportDiskName(options.image)}
    /\ lastFetch' = NoFetch
    /\ UNCHANGED <<options, raised, images, instances, attached, tarballs, tempfiles,
                   watch, listing, invocations>>

(* make_image_tarball, lines 411-417: attach the scratch disk, before the try block *)
tarball_attach_disk ==
    /\ pc = "attach_disk"
    /\ \E code \in Codes :
         /\ calls' = Append(calls, Call("attachDisk", get_target_project(options),
                                        ExportDiskName(options.image), code))
         /\ IF run_or_die_dies(code)
              THEN /\ Fail("exit: attachDisk")
                   /\ UNCHANGED attached
              ELSE /\ Proceed(extractor_next("attach_disk"))
                   /\ attached' = attached \cup {ExportDiskName(options.image)}
    /\ lastFetch' = NoFetch
    /\ UNCHANGED <<options, raised, images, instances, disks, tarballs, tempfiles, watch,
                   listing, invocations>>

(* __do_make_image_tarball, lines 359-387, called in the try block at 418-419:
   the remote bundling command. Its failure is raised after the finally block. *)
do_make_image_tarball ==
    /\ pc = "bundle"
    /\ \E code \in Codes :
         /\ calls' = Append(calls, Call("runRemoteCommand", get_target_project(options),
                                        options.tmp_instance_name, code))
         /\ raised' = IF run_or_die_dies(code) THEN "exit: runRemoteCommand" ELSE "none"
         /\ tarballs' = IF run_or_die_dies(code) THEN tarballs
                        ELSE tarballs \cup {options.write_tarball_path}
    /\ Continue(extractor_next("bundle"))
    /\ lastFetch' = NoFetch
    /\ UNCHANGED <<options, images, instances, disks, attached, tempfiles, watch,
                   listing, invocations>>

(* make_image_tarball, lines 420-426: detach the scratch disk; the status is not looked at *)
tarball_detach_disk ==
    /\ pc = "detach_disk"
    /\ \E code \in Codes :
         /\ calls' = Append(calls, Call("detachDisk", get_target_project(options),
                                        ExportDiskName(options.image), code))
         /\ attached' = IF code = 0 THEN attached \ {ExportDiskName(options.image)}
                        ELSE attached
         /\ IF cleanup_raises(code)
              THEN Fail("exit: detachDisk")
              ELSE Finally(extractor_next("detach_disk"))
    /\ lastFetch' = NoFetch
    /\ UNCHANGED <<options, raised, images, instances, disks, tarballs, tempfiles, watch,
                   listing, invocations>>

(* make_image_tarball, lines 427-430: delete the scratch disk; the status is not
   looked at *)
tarball_delete_disk ==
    /\ pc = "delete_disk"
    /\ \E code \in (IF Deletable(ExportDiskName(options.image)) THEN Codes ELSE {1}) :
         /\ calls' = Append(calls, Call("deleteDisk", get_target_project(options),
                                        ExportDiskName(options.image), code))
         /\ disks' = IF code = 0 THEN disks \ {ExportDiskName(options.image)} ELSE disks
         /\ IF cleanup_raises(code)
              THEN Fail("exit: deleteDisk")
              ELSE Finally(extractor_next("delete_disk"))
    /\ lastFetch' = NoFetch
    /\ UNCHANGED <<options, raised, images, instances, attached, tarballs, tempfiles,
                   watch, listing, invocations>>

----------------------------------------------------------------------------

Next ==
    \/ create_image_validate
    \/ check_for_image
    \/ make_payload_files
    \/ get_source_image
    \/ create_prototype_instance
    \/ monitor_fetch
    \/ monitor_dot
    \/ monitor_describe
    \/ monitor_sleep
    \/ monitor_drain
    \/ extract_delete_instance
    \/ extract_create_image
    \/ make_image_resource
    \/ tarball_create_disk
    \/ tarball_attach_disk
    \/ do_make_image_tarball
    \/ tarball_detach_disk
    \/ tarball_delete_disk

Spec == Init /\ [][Next]_vars

----------------------------------------------------------------------------
(* Vocabulary of the properties *)

ExtractorPcs == {"delete_instance", "create_image", "delete_boot_disk", "create_disk",
                 "attach_disk", "bundle", "detach_disk", "delete_disk"}

ExtractorOps == {"deleteInstance", "createImage", "deleteDisk", "createDisk",
                 "attachDisk", "runRemoteCommand", "detachDisk"}

WatcherPcs == {"poll", "describe", "sleep"}

Issued(op) == {i \in DOMAIN calls : calls[i].op = op}

Succeeded(op) == {i \in Issued(op) : calls[i].code = 0}

\* monitor_serial_port_until_metadata_key returned to create_image
WatcherReturned ==
    pc \in ExtractorPcs \/ \E i \in DOMAIN calls : calls[i].op \in ExtractorOps

ScratchDisk == options.image \o <<"-","e","x","p","o","r","t">>

OnScratchDisk(op) == {i \in Issued(op) : calls[i].name = ScratchDisk}

OnBootDisk(op) == {i \in Issued(op) : calls[i].name = options.tmp_instance_name}

\* The tarball path is set and its first five characters are not g s : / /
BadTarballPath ==
    LET p == options.write_tarball_path
    IN  /\ Len(p) > 0
        /\ \/ Len(p) < 5
           \/ p[1] # "g" \/ p[2] # "s" \/ p[3] # ":" \/ p[4] # "/" \/ p[5] # "/"

----------------------------------------------------------------------------
(* C1: when the existence check of check_for_image returns status 0, the run
   has failed, the check is the only API call that was made, and no instance
   or disk exists. *)
C1_ExistingImageStopsRun ==
    Succeeded("describeImage") # {} =>
        /\ pc = "end"
        /\ result = "failed"
        /\ Len(calls) = 1
        /\ instances = {} /\ disks = {} /\ attached = {}

C1_Witness ==
    /\ Succeeded("describeImage") # {}
    /\ pc = "end"
    /\ error = "exit: image exists"

(* C2: in tarball mode with a destination that does not start with gs://,
   the run fails with a ValueError in validation: no API call (the existence
   check included) is made and no resource or payload file is created. *)
C2_BadTarballPathRejected ==
    (BadTarballPath /\ pc # "validate") =>
        /\ pc = "end"
        /\ result = "failed"
        /\ error \in {"ValueError: release_path", "ValueError: write_tarball_path"}
        /\ calls = <<>>
        /\ instances = {} /\ disks = {} /\ tempfiles = {}

C2_Witness ==
    /\ BadTarballPath
    /\ StartsWith(options.release_path, GS_SCHEME)
    /\ pc = "end"
    /\ error = "ValueError: write_tarball_path"

(* C3: the watcher returns to create_image only if some describe response
   held the sentinel, and once a response held it the watcher is no longer
   waiting. *)
C3_DoneIffSentinel ==
    /\ WatcherReturned => sentinelPolled
    /\ sentinelPolled => pc \notin WatcherPcs

(* C4: a run that created the instance and has ended has deleted it. *)
C4_InstanceDeletedAtEnd ==
    (pc = "end" /\ Succeeded("createInstance") # {}) =>
        options.tmp_instance_name \notin instances

(* C5: when the remote bundling command failed, the run goes through the
   cleanup and ends failed: at the end exactly one detachDisk and then exactly
   one deleteDisk were issued for the scratch disk, after the bundling call,
   and no tarball was written. *)
C5_CleanupAfterBundleFailure ==
    (Issued("runRemoteCommand") \ Succeeded("runRemoteCommand")) # {} =>
        /\ pc \in {"detach_disk", "delete_disk", "end"}
        /\ tarballs = {}
        /\ pc = "end" =>
             /\ result = "failed"
             /\ Cardinality(OnScratchDisk("detachDisk")) = 1
             /\ Cardinality(OnScratchDisk("deleteDisk")) = 1
             /\ Cardinality(Issued("detachDisk")) = 1
             /\ Cardinality(Issued("deleteDisk")) = 1
             /\ \A b \in Issued("runRemoteCommand"), d \in Issued("detachDisk"),
                   e \in Issued("deleteDisk") : b < d /\ d < e

C5_Witness ==
    /\ (Issued("runRemoteCommand") \ Succeeded("runRemoteCommand")) # {}
    /\ pc = "end"
    /\ error = "exit: runRemoteCommand"

(* C6: in the image branch every createImage call comes after a deleteInstance
   call that returned 0, and every deleteDisk of the boot disk comes after a
   createImage call that returned 0. *)
C6_ImageBranchOrder ==
    /\ \A i \in Issued("createImage") :
          \E j \in Succeeded("deleteInstance") : j < i
    /\ \A i \in OnBootDisk("deleteDisk") :
          \E j \in Succeeded("createImage") :
             /\ j < i
             /\ \E k \in Succeeded("deleteInstance") : k < j

C6_Witness ==
    /\ OnBootDisk("deleteDisk") # {}
    /\ pc = "end"
    /\ result = "ok"

(* C7: an image-mode run that has ended, in which a describe poll held the
   sentinel and every call after the existence check returned 0, succeeded:
   the only image is the target, and no instance and no disk is left. *)
C7_ImageModeEndToEnd ==
    ( /\ pc = "end"
      /\ options.write_tarball_path = <<>>
      /\ sentinelPolled
      /\ \A i \in DOMAIN calls : calls[i].op # "describeImage" => calls[i].code = 0 ) =>
        /\ result = "ok"
        /\ images = {get_target_image(options)}
        /\ instances = {}
        /\ disks = {}

C7_Witness ==
    /\ pc = "end"
    /\ result = "ok"
    /\ options.write_tarball_path = <<>>
    /\ \A i \in DOMAIN calls : calls[i].op # "describeImage" => calls[i].code = 0
    /\ Cardinality(Issued("describeInstance")) >= 2
    /\ images = {<<"r","-","1">>}

(* C8: in trace mode, a failing log fetch made once output has been seen
   keeps the watcher polling when its text holds the crash signature, at the
   start or further in, and any other such failure ends the run without an
   extractor step. *)
C8_FetchFailureClassified ==
    /\ (lastFetch.failed /\ lastFetch.output /\ lastFetch.sig \in {"start", "inside"})
          => pc = "poll"
    /\ watchFailed => ~WatcherReturned

(* C9: a tarball run that created the scratch disk and has ended issued a
   detachDisk and after it a deleteDisk for that disk. *)
C9_ScratchDiskReleased ==
    (pc = "end" /\ Succeeded("createDisk") # {}) =>
        \E d \in OnScratchDisk("detachDisk"), e \in OnScratchDisk("deleteDisk") : d < e

(* C10: once create_prototype_instance is over, on any exit path, no
   temporary payload file is left. *)
C10_PayloadFilesRemoved ==
    pc \notin {"validate", "check", "tempfiles", "resolve", "create_instance"} =>
        tempfiles = {}

(* C11: when the bundling command failed, a run that has ended attempted both
   cleanup calls, whatever their status, and the failure it ends with is the
   failure of the bundling command. *)
C11_CleanupDoesNotMask ==
    ((Issued("runRemoteCommand") \ Succeeded("runRemoteCommand")) # {} /\ pc = "end") =>
        /\ result = "failed"
        /\ error = "exit: runRemoteCommand"
        /\ OnScratchDisk("detachDisk") # {}
        /\ OnScratchDisk("deleteDisk") # {}

C11_Witness ==
    /\ (Issued("runRemoteCommand") \ Succeeded("runRemoteCommand")) # {}
    /\ pc = "end"
    /\ (OnScratchDisk("detachDisk") \ Succeeded("detachDisk")) # {}
    /\ (OnScratchDisk("deleteDisk") \ Succeeded("deleteDisk")) # {}

----------------------------------------------------------------------------
(* The image listing as the provisioning API means it: one image a line, the
   name first; within a family the names are ordered by their version suffix *)

LineStarts(text) ==
    {i \in 1..Len(text) : i = 1 \/ text[i - 1] = "\n"}

NameAt(text, i) ==
    LET stops == {j \in i..Len(text) : text[j] \in Whitespace}
    IN  IF stops = {} THEN SubSeq(text, i, Len(text))
        ELSE SubSeq(text, i, Min(stops) - 1)

ListedNames(text) == {NameAt(text, i) : i \in LineStarts(text)} \ {<<>>}

FamilyImages(family, text) ==
    {n \in ListedNames(text) : Len(n) >= Len(family) /\ \A k \in 1..Len(family) : n[k] = family[k]}

Collation == <<"0","1","2","3","4","5","6","7","8","9","a","b","c","d","p","s","r","u">>

Rank(c) == CHOOSE k \in 1..Len(Collation) : Collation[k] = c

\* a is a later version than b
Newer(a, b) ==
    \/ \E i \in 1..Len(a) :
          /\ i <= Len(b)
          /\ \A k \in 1..(i - 1) : a[k] = b[k]
          /\ Rank(a[i]) > Rank(b[i])
    \/ Len(a) > Len(b) /\ \A k \in 1..Len(b) : a[k] = b[k]

IsLatest(n, family, text) ==
    /\ n \in FamilyImages(family, text)
    /\ \A m \in FamilyImages(family, text) : m # n => Newer(n, m)

(* C12: a run that is past get_source_image uses the explicit source image,
   with no listing made, or the latest image of the family in the listing. *)
C12_ResolvesLatest ==
    (pc \notin {"validate", "check", "tempfiles", "resolve"} /\ Issued("createInstance") # {}) =>
        IF Issued("listImages") = {}
          THEN options.source_image = <<"s","r","c">>
          ELSE IsLatest(options.source_image, options.source_image_family, listing)

(* C13: when the listing was made and holds no image of the family, the run
   has ended with the not-found failure after that call: createInstance, the
   watcher and the extractor were not called and no instance or disk exists. *)
C13_NoMatchAborts ==
    (Succeeded("listImages") # {} /\ FamilyImages(options.source_image_family, listing) = {}) =>
        /\ pc = "end"
        /\ result = "failed"
        /\ error = "exit: no image for family"
        /\ Issued("createInstance") = {}
        /\ \A i \in DOMAIN calls : calls[i].op \in {"describeImage", "listImages"}
        /\ instances = {} /\ disks = {}

C13_Witness ==
    /\ Succeeded("listImages") # {}
    /\ listing = <<"d","8"," ","p","\n">>
    /\ pc = "end"
    /\ error = "exit: no image for family"

(* C14: a call that returned a non-zero status is fatal to the run, unless it
   is the existence check (whose non-zero status means the image is absent), a
   cleanup call of the finally block, or a log fetch that failed with the
   crash signature. *)
C14_NonZeroIsFatal ==
    \A i \in DOMAIN calls :
        ( /\ calls[i].code # 0
          /\ calls[i].op \notin {"describeImage", "detachDisk"}
          /\ ~(calls[i].op = "deleteDisk" /\ calls[i].name = ScratchDisk)
          /\ calls[i].op = "getSerialOutput" =>
                (i = Len(calls) /\ lastFetch.sig \notin {"start", "inside"}) ) =>
            (result = "failed" \/ raised # "none")

\* The failed log fetches in a row that end the call history
TrailingRetries ==
    Cardinality({i \in DOMAIN calls :
                    \A k \in i..Len(calls) :
                       calls[k].op = "getSerialOutput" /\ calls[k].code # 0})

(* C16: the watcher does not begin another cycle once MaxPolls log fetches in
   a row have failed: its retries are bounded. *)
C16_BoundedRetry ==
    pc = "poll" => TrailingRetries < MaxPolls

(* C17 as stated: whenever the watcher is about to begin a further cycle, the
   cycle before made the describe query and then slept the interval. *)
C17_DescribeAndSleepEveryCycle ==
    (pc = "poll" /\ cycles > 0) =>
        /\ calls[Len(calls)].op = "describeInstance"
        /\ clock = SLEEP_INTERVAL * Cardinality(Issued("describeInstance"))

(* C17 amended: whenever the watcher is about to begin a further cycle, the
   cycle before made the describe query and then slept the interval, or its
   log fetch failed, after output had been seen, with the crash signature past
   the start of the failure text; and every describe query that did not end
   the watch was followed by one sleep of the interval. *)
C17_DescribeAndSleepUnlessIgnoredCrash ==
    /\ pc = "poll" => clock = SLEEP_INTERVAL * Cardinality(Issued("describeInstance"))
    /\ (pc = "poll" /\ cycles > 0) =>
          \/ calls[Len(calls)].op = "describeInstance"
          \/ /\ calls[Len(calls)].op = "getSerialOutput"
             /\ lastFetch.failed /\ lastFetch.output /\ lastFetch.sig = "inside"

C17_Witness ==
    /\ pc = "poll"
    /\ cycles >= 2
    /\ clock = SLEEP_INTERVAL
    /\ lastFetch.failed /\ lastFetch.output /\ lastFetch.sig = "inside"

(* C18: createInstance is called at most once and after an existence check
   that reported the image absent; every watcher poll comes after a
   createInstance that returned 0; every extractor call comes after the
   watcher returned, so after all its polls. *)
C18_StepsInSequence ==
    LET polls == Issued("getSerialOutput") \cup Issued("describeInstance")
        created == Succeeded("createInstance")
        extracts == {i \in DOMAIN calls : calls[i].op \in ExtractorOps}
    IN  /\ Cardinality(Issued("createInstance")) <= 1
        /\ \A i \in Issued("createInstance") :
              \E j \in Issued("describeImage") \ Succeeded("describeImage") : j < i
        /\ \A i \in polls : \E j \in created : j < i
        /\ extracts # {} => pc \notin WatcherPcs \cup {"drain"}
        /\ \A i \in extracts :
              /\ \A j \in polls : j < i
              /\ \E j \in created : j < i

C18_Witness ==
    /\ pc = "end"
    /\ result = "ok"
    /\ Issued("getSerialOutput") # {}
    /\ Issued("runRemoteCommand") # {}

(* C19: an image-branch run that deleted the instance and has ended has
   deleted the retained boot disk. *)
C19_BootDiskDeleted ==
    (pc = "end" /\ Succeeded("deleteInstance") # {}) =>
        options.tmp_instance_name \notin disks

(* C20: every log fetch, the final one included, asks for the log of the
   watched instance in the target project, and what trace mode has emitted is
   the log up to some point: nothing twice, nothing skipped. *)
C20_LogEmittedOnce ==
    /\ \A i \in Issued("getSerialOutput") :
          /\ calls[i].project = get_target_project(options)
          /\ calls[i].name = options.tmp_instance_name
    /\ options.trace =>
          /\ Len(emitted) >= offset
          /\ emitted = SubSeq(FullLog, 1, Len(emitted))

(* C21 as stated: in trace mode, a log fetch that fails when no earlier fetch
   had returned output goes on to the describe query of the same cycle,
   whatever its failure text. *)
C21_FailureBeforeOutputQueries ==
    (lastFetch.failed /\ ~lastFetch.seen) => pc = "describe"

(* C21 amended: in trace mode, a log fetch that fails while no output has been
   seen, its own output included, goes on to the describe query of the same
   cycle whatever its failure text; as long as no output has been seen every
   cycle begun has made its describe query and slept the interval; and a
   failing fetch is repeated without the query, or ends the watch, only once
   output has been seen, from that fetch or an earlier one. *)
C21_FailureWithoutOutputQueries ==
    /\ (lastFetch.failed /\ ~lastFetch.output) => pc = "describe"
    /\ (lastFetch.failed /\ pc \in {"poll", "drain"}) => lastFetch.output
    /\ watchFailed => offset > 0
    /\ (pc = "poll" /\ options.trace /\ offset = 0) =>
          /\ Cardinality(Issued("getSerialOutput")) = cycles
          /\ Cardinality(Issued("describeInstance")) = cycles
          /\ clock = SLEEP_INTERVAL * cycles

C21_Witness ==
    /\ pc = "describe"
    /\ cycles = 2
    /\ offset = 0
    /\ lastFetch.failed /\ ~lastFetch.output /\ lastFetch.sig = "inside"
    /\ clock = SLEEP_INTERVAL
    /\ Len(calls) >= 3
    /\ calls[Len(calls) - 2].op = "getSerialOutput"
    /\ calls[Len(calls) - 2].code # 0
    /\ calls[Len(calls) - 1].op = "describeInstance"

----------------------------------------------------------------------------
(* Two invocations of the script and the names of the ephemeral resources
   each derives: the instance name of init_argument_parser and the scratch
   disk name of make_image_tarball. Instants are in half seconds. *)

MaxStart == 2

Runs == {1, 2}

Users == { <<"a">>, <<"b">> }

Digits == <<"0","1","2","3","4","5","6","7","8","9">>

\* time.strftime('%Y%m%d%H%M%S') at the instant the module is loaded: the
\* fields down to the second, here within one minute of one day
TIME_DECORATOR(instant) ==
    LET sec == (instant \div 2) % 60
    IN  <<"2","0","1","5","1","0","0","2","1","2","0","0">>
           \o <<Digits[(sec \div 10) + 1], Digits[(sec % 10) + 1]>>

\* '{user}-build-spinnaker-image-{time}', the default of --tmp_instance_name
default_tmp_instance_name(user, time) ==
    user \o <<"-","b","u","i","l","d","-","s","p","i","n","n","a","k","e","r","-",
              "i","m","a","g","e","-">> \o time

CommandLines ==
    [user : Users,
     started : 0..MaxStart,
     image : ImageNames,
     release_path : ReleasePaths \ {<<>>},
     given_instance_name : {<<>>, InstanceName}]

Unnamed == [phase |-> "argv", tmp_instance_name |-> <<>>, disk_name |-> <<>>]

workflow == <<pc, options, result, error, raised, calls, images, instances, disks,
              attached, tarballs, tempfiles, offset, emitted, cycles, clock,
              sentinelPolled, lastFetch, watchFailed, listing>>

InitNames ==
    /\ invocations \in [Runs -> {[cmd |-> c, names |-> Unnamed] : c \in CommandLines}]
    /\ pc = "idle"
    /\ options = [release_path |-> <<>>, write_tarball_path |-> <<>>, image |-> <<>>,
                  image_project |-> <<>>, source_image |-> <<>>,
                  source_image_family |-> SourceFamily,
                  tmp_instance_name |-> InstanceName, trace |-> FALSE]
    /\ result = "running"
    /\ error = "none"
    /\ raised = "none"
    /\ calls = <<>>
    /\ images = {}
    /\ instances = {}
    /\ disks = {}
    /\ attached = {}
    /\ tarballs = {}
    /\ tempfiles = {}
    /\ offset = 0
    /\ emitted = <<>>
    /\ cycles = 0
    /\ clock = 0
    /\ sentinelPolled = FALSE
    /\ lastFetch = NoFetch
    /\ watchFailed = FALSE
    /\ listing = <<>>

(* init_argument_parser, lines 166-168, with TIME_DECORATOR of line 32: the
   instance name is the one given, or the default made of user and time *)
init_argument_parser(r) ==
    /\ invocations[r].names.phase = "argv"
    /\ LET c == invocations[r].cmd
           name == IF c.given_instance_name # <<>>
                     THEN c.given_instance_name
                     ELSE default_tmp_instance_name(c.user, TIME_DECORATOR(c.started))
       IN  invocations' = [invocations EXCEPT
                             ![r].names = [phase |-> "parsed",
                                           tmp_instance_name |-> name,
                                           disk_name |-> <<>>]]
    /\ UNCHANGED workflow

(* make_image_tarball, line 398: the scratch disk is named after options.image,
   which check_for_image has set to get_target_image *)
make_image_tarball_disk_name(r) ==
    /\ invocations[r].names.phase = "parsed"
    /\ invocations' = [invocations EXCEPT
                         ![r].names.phase = "named",
                         ![r].names.disk_name =
                             ExportDiskName(get_target_image(invocations[r].cmd))]
    /\ UNCHANGED workflow

NextNames ==
    \E r \in Runs :
        \/ init_argument_parser(r)
        \/ make_image_tarball_disk_name(r)

SpecNames == InitNames /\ [][NextNames]_vars

(* C15: two invocations that have derived their names use different instance
   names and different scratch disk names. *)
C15_NamesUnique ==
    \A r1, r2 \in Runs :
        ( /\ r1 # r2
          /\ invocations[r1].names.phase = "named"
          /\ invocations[r2].names.phase = "named" ) =>
            /\ invocations[r1].names.tmp_instance_name # invocations[r2].names.tmp_instance_name
            /\ invocations[r1].names.disk_name # invocations[r2].names.disk_name

====
